---------------------------- MODULE Spec2Model ----------------------------
(***************************************************************************)
(* A model of the trippy tracing backend.                                  *)
(*                                                                         *)
(* Part 1 (the aggregator, src/src/backend.rs): the shared Trace and       *)
(* update_trace_data, which folds one Probe event into the per-hop         *)
(* statistics.                                                             *)
(*                                                                         *)
(* Part 2 (the channel, src/src/tracing/net/channel.rs): send_probe and    *)
(* recv_probe of TracerChannel over the TCP probe array and the raw ICMP   *)
(* receive socket, with the operating system as the environment.           *)
(*                                                                         *)
(* Part 3 (the threads, src/src/main.rs and run_backend): the backend      *)
(* thread, whose callback updates the Trace under the write lock, and the  *)
(* main thread, whose frontend reads it under the read lock.               *)
(*                                                                         *)
(* Part 4 (the Windows platform layer, platform/windows.rs, and            *)
(* make_src_addr, TracerChannel::connect and recv_icmp_probe over it): the *)
(* calls and how they end; lookup_interface_addr, statement by statement,  *)
(* with the buffers it allocates.                                          *)
(*                                                                         *)
(* Part 5 (the engine, which is outside src/ and follows the               *)
(* specification's section 4.4): rounds, the in-flight window and the      *)
(* probe events handed to the callback.                                    *)
(*                                                                         *)
(* Durations are whole microseconds.  The f64 fields mean and m2 are       *)
(* modelled as exact rationals [n, d] in lowest terms: the model keeps the *)
(* arithmetic of the code and abstracts from f64 rounding.                 *)
(***************************************************************************)
EXTENDS Integers, Sequences, FiniteSets, TLC

(***************************************************************************)
(* Program constants.                                                      *)
(***************************************************************************)
MAX_SAMPLES == 256

MAX_HOPS == 64

MAX_TCP_PROBES == 256

\* Duration::as_secs_f64() * 1000_f64 of a duration held in microseconds.
MICROS_PER_MS == 1000

(***************************************************************************)
(* Bounds of the model.                                                    *)
(***************************************************************************)
\* The number of freely chosen probe events of one run.
MaxEvents == 3

\* The number of freely chosen send_probe / recv_probe calls of one run.
MaxCalls == 3

\* The number of freely chosen calls that follow a scripted burst of sends.
MaxBurstCalls == 1

\* The clock runs from 0 to MaxTime.
MaxTime == 2

\* The number of ICMP packets that arrive at the receive socket in one run.
MaxPackets == 1

\* The number of probe events of one run of the two threads.
MaxLockEvents == 2

\* The number of platform calls of one run.
MaxPlatCalls == 2

\* The number of probes the engine sends in one run, and of its rounds.
MaxProbes == 3

MaxRounds == 2

\* config.max_ttl and config.max_inflight of the engine's runs.
MaxTtl == 2

MaxInflightInputs == {1, 2}

\* config.tcp_connect_timeout and config.read_timeout, in clock ticks.
TcpConnectTimeoutInputs == {1, 2}

ReadTimeoutInputs == {1}

\* The operating system completes connects only of the entries at these
\* positions of the TCP probe array.
SockWindow == {1, 2}

(***************************************************************************)
(* Option<T>: None is the empty sequence, Some(x) the one element sequence.*)
(***************************************************************************)
None == << >>

Some(x) == << x >>

IsSome(o) == o # None

Unwrap(o) == o[1]

Max(a, b) == IF a >= b THEN a ELSE b

Min(a, b) == IF a <= b THEN a ELSE b

(***************************************************************************)
(* Exact rationals standing for f64 values.                                *)
(***************************************************************************)
Abs(a) == IF a < 0 THEN -a ELSE a

RECURSIVE GCD(_, _)
GCD(a, b) == IF b = 0 THEN a ELSE GCD(b, a % b)

Rat(n, d) ==
    LET g == GCD(Abs(n), Abs(d))
        s == IF d < 0 THEN -1 ELSE 1
    IN  [n |-> (s * n) \div g, d |-> (s * d) \div g]

RatOfInt(i) == [n |-> i, d |-> 1]

RatAdd(x, y) == Rat(x.n * y.d + y.n * x.d, x.d * y.d)

RatSub(x, y) == Rat(x.n * y.d - y.n * x.d, x.d * y.d)

RatMul(x, y) == Rat(x.n * y.n, x.d * y.d)

\* x / (k as f64), k > 0
RatDivInt(x, k) == Rat(x.n, x.d * k)

RatLe(x, y) == x.n * y.d <= y.n * x.d

Zero == RatOfInt(0)

(***************************************************************************)
(* The inputs: probe events handed to the callback.                        *)
(***************************************************************************)
UNSPECIFIED == "0.0.0.0"

\* Probe ttl values: the first hop slot, the last one, and one past it.
TtlInputs == {1, MAX_HOPS, MAX_HOPS + 1}

\* Probe round trip times, in microseconds.
DurInputs == {500, 2000, 3000}

HostInputs == {None, Some("10.0.0.1")}

Probe(ttl, status, dur, host) ==
    [ttl |-> ttl, status |-> status, dur |-> dur, host |-> host]

ProbeInputs ==
    {Probe(t, "NotSent", 0, None) : t \in TtlInputs}
    \cup {Probe(t, "Awaited", 0, None) : t \in TtlInputs}
    \cup {Probe(t, "Complete", d, h) : t \in TtlInputs, d \in DurInputs, h \in HostInputs}

(***************************************************************************)
(* Hop and Trace.                                                          *)
(***************************************************************************)
HopDefault ==
    [ttl        |-> 0,
     addrs      |-> {},
     total_sent |-> 0,
     total_recv |-> 0,
     total_time |-> 0,
     last       |-> None,
     best       |-> None,
     worst      |-> None,
     mean       |-> Zero,
     m2         |-> Zero,
     samples    |-> << >>]

TraceDefault ==
    [highest_ttl |-> 0,
     hops        |-> [i \in 1..MAX_HOPS |-> HopDefault]]

\* Hop::last_ms, best_ms, worst_ms: Option<Duration> -> Option<f64 ms>
ms_of(dur) == Rat(dur, MICROS_PER_MS)

last_ms(hop) == IF IsSome(hop.last) THEN Some(ms_of(Unwrap(hop.last))) ELSE None

best_ms(hop) == IF IsSome(hop.best) THEN Some(ms_of(Unwrap(hop.best))) ELSE None

worst_ms(hop) == IF IsSome(hop.worst) THEN Some(ms_of(Unwrap(hop.worst))) ELSE None

\* Hop::stddev_ms squared: the radicand m2 / (total_recv - 1), or 0.  The
\* square root is strictly increasing on the non-negative numbers, so two
\* standard deviations are equal exactly when these radicands are.
stddev_ms_squared(hop) ==
    IF hop.total_recv > 1
    THEN RatDivInt(hop.m2, hop.total_recv - 1)
    ELSE Zero

(***************************************************************************)
(* update_trace_data, line by line.                                        *)
(***************************************************************************)
\* A faulty variant of InsertSample: a full list drops its newest entry.
InsertSample_DropNewest(samples, dur) ==
    LET ins == << dur >> \o samples
    IN  IF Len(ins) > MAX_SAMPLES THEN Tail(ins) ELSE ins

\* hop.samples.insert(0, dur); if hop.samples.len() > MAX_SAMPLES { pop() }
InsertSample(samples, dur) ==
    LET ins == << dur >> \o samples
    IN  IF Len(ins) > MAX_SAMPLES THEN SubSeq(ins, 1, Len(ins) - 1) ELSE ins

\* A faulty variant of NextBest: max in place of min.
NextBest_Max(best, dur) ==
    IF IsSome(best) THEN Some(Max(Unwrap(best), dur)) ELSE Some(dur)

\* hop.best.map_or(Some(dur), |d| Some(d.min(dur)))
NextBest(best, dur) ==
    IF IsSome(best) THEN Some(Min(Unwrap(best), dur)) ELSE Some(dur)

\* hop.worst.map_or(Some(dur), |d| Some(d.max(dur)))
NextWorst(worst, dur) ==
    IF IsSome(worst) THEN Some(Max(Unwrap(worst), dur)) ELSE Some(dur)

\* hop.mean += (dur_ms - hop.mean) / hop.total_recv as f64
NextMean(mean, dur_ms, total_recv) ==
    RatAdd(mean, RatDivInt(RatSub(dur_ms, mean), total_recv))

\* hop.m2 += (dur_ms - hop.mean) * (dur_ms - hop.mean), hop.mean being the
\* mean already updated by the line before.
NextM2(m2, dur_ms, mean) ==
    RatAdd(m2, RatMul(RatSub(dur_ms, mean), RatSub(dur_ms, mean)))

\* A faulty variant of HostOrUnspecified: a probe without host adds nothing.
HostOrUnspecified_Drop(host) == IF IsSome(host) THEN {Unwrap(host)} ELSE {}

\* probe.host.unwrap_or(IpAddr::V4(Ipv4Addr::UNSPECIFIED))
HostOrUnspecified(host) == IF IsSome(host) THEN {Unwrap(host)} ELSE {UNSPECIFIED}

\* A faulty variant of CompleteHop: total_sent is not counted.
CompleteHop_NoSent(hop, probe) ==
    LET dur        == probe.dur
        dur_ms     == ms_of(dur)
        total_recv == hop.total_recv + 1
        mean       == NextMean(hop.mean, dur_ms, total_recv)
    IN  [ttl        |-> probe.ttl,
         addrs      |-> hop.addrs \cup HostOrUnspecified(probe.host),
         total_sent |-> hop.total_sent,
         total_recv |-> total_recv,
         total_time |-> hop.total_time + dur,
         last       |-> Some(dur),
         best       |-> NextBest(hop.best, dur),
         worst      |-> NextWorst(hop.worst, dur),
         mean       |-> mean,
         m2         |-> NextM2(hop.m2, dur_ms, mean),
         samples    |-> InsertSample(hop.samples, dur)]

\* The ProbeStatus::Complete arm.
CompleteHop(hop, probe) ==
    LET dur        == probe.dur
        dur_ms     == ms_of(dur)
        total_recv == hop.total_recv + 1
        mean       == NextMean(hop.mean, dur_ms, total_recv)
    IN  [ttl        |-> probe.ttl,
         addrs      |-> hop.addrs \cup HostOrUnspecified(probe.host),
         total_sent |-> hop.total_sent + 1,
         total_recv |-> total_recv,
         total_time |-> hop.total_time + dur,
         last       |-> Some(dur),
         best       |-> NextBest(hop.best, dur),
         worst      |-> NextWorst(hop.worst, dur),
         mean       |-> mean,
         m2         |-> NextM2(hop.m2, dur_ms, mean),
         samples    |-> InsertSample(hop.samples, dur)]

\* A faulty variant of AwaitedHop: the zero sample is also stored as last.
AwaitedHop_SetsLast(hop, probe) ==
    [hop EXCEPT !.total_sent = hop.total_sent + 1,
                !.ttl = probe.ttl,
                !.last = Some(0),
                !.samples = InsertSample(hop.samples, 0)]

\* A faulty variant of AwaitedHop: the hop's ttl field is not assigned.
AwaitedHop_NoTtl(hop, probe) ==
    [hop EXCEPT !.total_sent = hop.total_sent + 1,
                !.samples = InsertSample(hop.samples, 0)]

\* The ProbeStatus::Awaited arm.
AwaitedHop(hop, probe) ==
    [hop EXCEPT !.total_sent = hop.total_sent + 1,
                !.ttl = probe.ttl,
                !.samples = InsertSample(hop.samples, 0)]

\* trace_data.highest_ttl = trace_data.highest_ttl.max(probe.ttl.0), which
\* runs before the match on probe.status.
NextHighestTtl(highest_ttl, probe) == Max(highest_ttl, probe.ttl)

\* update_trace_data(probe, trace_data): the trace after the call, and
\* whether the call panicked.  Indexing hops[index] with index >= hops.len()
\* panics, after highest_ttl was assigned and before any hop is changed.
update_trace_data(probe, trace_data) ==
    LET index   == probe.ttl - 1
        raised  == [trace_data EXCEPT
                       !.highest_ttl = NextHighestTtl(trace_data.highest_ttl, probe)]
        inRange == index < Len(trace_data.hops)
    IN  CASE probe.status = "Complete" ->
               IF inRange
               THEN [trace |-> [raised EXCEPT !.hops[index + 1] =
                                    CompleteHop(trace_data.hops[index + 1], probe)],
                     panicked |-> FALSE]
               ELSE [trace |-> raised, panicked |-> TRUE]
          [] probe.status = "Awaited" ->
               IF inRange
               THEN [trace |-> [raised EXCEPT !.hops[index + 1] =
                                    AwaitedHop(trace_data.hops[index + 1], probe)],
                     panicked |-> FALSE]
               ELSE [trace |-> raised, panicked |-> TRUE]
          [] OTHER -> [trace |-> raised, panicked |-> FALSE]

\* Trace::target_hop: &self.hops[highest_ttl - 1] if highest_ttl > 0, else
\* &self.hops[0]; indexing past the end of hops panics.
target_hop(trace) ==
    LET index == IF trace.highest_ttl > 0 THEN trace.highest_ttl - 1 ELSE 0
    IN  IF index < Len(trace.hops)
        THEN [hop |-> Some(trace.hops[index + 1]), panicked |-> FALSE]
        ELSE [hop |-> None, panicked |-> TRUE]

(***************************************************************************)
(* The channel: TraceResult, Option<ProbeResponse>, and the operations.    *)
(***************************************************************************)
Ok(v) == [ok |-> TRUE, val |-> v]

Err == [ok |-> FALSE, val |-> None]

\* Option::or(self, optb)
OptionOr(a, b) == IF IsSome(a) THEN a ELSE b

ProbeResponse(kind, id) == [kind |-> kind, id |-> id]

Protocols == {"Icmp", "Udp", "Tcp"}

\* The operating system's view of a stream socket after a non-blocking
\* connect: still connecting, connected, refused by the target, or failed for
\* another reason (the last three make it writable).
ConnStates == {"pending", "connected", "refused", "failed"}

\* TcpProbe::new(socket, start)
TcpProbe(fd, start) == [socket |-> [fd |-> fd, conn |-> "pending"], start |-> start]

\* platform::is_writable(&probe.socket).unwrap_or_default()
is_writable(socket) == socket.conn # "pending"

\* ipv4::recv_tcp_socket / ipv6::recv_tcp_socket: a TcpReply for a socket that
\* connected or was refused, nothing otherwise.
recv_tcp_socket(socket) ==
    IF socket.conn \in {"connected", "refused"}
    THEN Ok(Some(ProbeResponse("TcpReply", socket.fd)))
    ELSE Ok(None)

\* probe.start.elapsed().unwrap_or_default(): zero if the clock is behind start
Elapsed(start, time) == IF time >= start THEN time - start ELSE 0

\* A faulty variant of Retain: an entry whose age equals the timeout stays.
Retain_Late(probes, time, timeout) ==
    SelectSeq(probes, LAMBDA p : Elapsed(p.start, time) <= timeout)

\* self.tcp_probes.retain(|probe| elapsed < self.tcp_connect_timeout)
Retain(probes, time, timeout) ==
    SelectSeq(probes, LAMBDA p : Elapsed(p.start, time) < timeout)

\* iter().find_position(is_writable).map(|(i, _)| i): the first writable
\* entry's index (from 1), 0 for None.
FindWritable(probes) ==
    LET hits == {i \in 1..Len(probes) : is_writable(probes[i].socket)}
    IN  IF hits = {} THEN 0 ELSE CHOOSE i \in hits : \A j \in hits : i <= j

\* A faulty variant of Remove: the entry stays in the array.
Remove_Keep(probes, i) == probes

\* ArrayVec::remove(i)
Remove(probes, i) == SubSeq(probes, 1, i - 1) \o SubSeq(probes, i + 1, Len(probes))

\* recv_tcp_sockets: the result and the TCP probe array after the sweep.
recv_tcp_sockets(probes, time, timeout) ==
    LET kept        == Retain(probes, time, timeout)
        found_index == FindWritable(kept)
    IN  IF found_index # 0
        THEN [result     |-> recv_tcp_socket(kept[found_index].socket),
              tcp_probes |-> Remove(kept, found_index)]
        ELSE [result |-> Ok(None), tcp_probes |-> kept]

\* ipv4::recv_icmp_probe / ipv6::recv_icmp_probe on a readable socket: the
\* packet read, parsed into a response if it quotes one of our probes.
ParseIcmp(packet) ==
    IF packet.kind = "Junk" THEN Ok(None)
    ELSE Ok(Some(ProbeResponse(packet.kind, packet.id)))

\* recv_icmp_probe: is_readable(&self.recv_socket, self.read_timeout)? and,
\* if readable, one read.  os_error: the readiness check fails.  Gives the
\* result, the socket's queue afterwards, whether the readiness check ran,
\* whether a packet was read, and the time spent waiting.
recv_icmp_probe(queue, timeout, os_error) ==
    IF os_error
    THEN [result |-> Err, queue |-> queue, polled |-> TRUE, read |-> FALSE, waited |-> 0]
    ELSE IF queue # << >>
    THEN [result |-> ParseIcmp(Head(queue)), queue |-> Tail(queue),
          polled |-> TRUE, read |-> TRUE, waited |-> 0]
    ELSE [result |-> Ok(None), queue |-> queue,
          polled |-> TRUE, read |-> FALSE, waited |-> timeout]

NotPolled(queue) ==
    [result |-> Ok(None), queue |-> queue, polled |-> FALSE, read |-> FALSE, waited |-> 0]

\* recv_probe.  In TCP mode: Ok(self.recv_tcp_sockets()?.or(self.recv_icmp_probe()?)),
\* where the argument of Option::or is evaluated before or is called: the ICMP
\* socket is polled after every sweep that did not fail.
recv_probe(proto, probes, queue, time, tcp_timeout, rd_timeout, os_error) ==
    IF proto \in {"Icmp", "Udp"}
    THEN LET icmp == recv_icmp_probe(queue, rd_timeout, os_error)
         IN  [result |-> icmp.result, tcp_probes |-> probes, icmp |-> icmp,
              swept |-> FALSE, sweep |-> Ok(None)]
    ELSE LET tcp  == recv_tcp_sockets(probes, time, tcp_timeout)
             icmp == IF tcp.result.ok
                     THEN recv_icmp_probe(queue, rd_timeout, os_error)
                     ELSE NotPolled(queue)
         IN  [result     |-> IF ~tcp.result.ok \/ ~icmp.result.ok THEN Err
                             ELSE Ok(OptionOr(tcp.result.val, icmp.result.val)),
              tcp_probes |-> tcp.tcp_probes,
              icmp       |-> icmp,
              swept      |-> TRUE,
              sweep      |-> tcp.result]

\* dispatch_tcp_probe: ipv4/ipv6::dispatch_tcp_probe(...)? makes the socket and
\* starts the connect (setup_ok: it succeeded), then self.tcp_probes.push(..),
\* and ArrayVec::push panics when the array is full.
dispatch_tcp_probe(probes, setup_ok, fd, time) ==
    IF ~setup_ok
    THEN [result |-> "Err", tcp_probes |-> probes, panicked |-> FALSE]
    ELSE IF Len(probes) >= MAX_TCP_PROBES
    THEN [result |-> "Panic", tcp_probes |-> probes, panicked |-> TRUE]
    ELSE [result |-> "Ok", tcp_probes |-> Append(probes, TcpProbe(fd, time)),
          panicked |-> FALSE]

\* A faulty variant of send_probe: every protocol's probe opens a TCP socket.
send_probe_AlwaysTcp(proto, probes, setup_ok, fd, time) ==
    dispatch_tcp_probe(probes, setup_ok, fd, time)

\* send_probe: ICMP and UDP probes are written to the send sockets and leave
\* the channel's state alone.
send_probe(proto, probes, setup_ok, fd, time) ==
    IF proto \in {"Icmp", "Udp"}
    THEN [result |-> IF setup_ok THEN "Ok" ELSE "Err", tcp_probes |-> probes,
          panicked |-> FALSE]
    ELSE dispatch_tcp_probe(probes, setup_ok, fd, time)

(***************************************************************************)
(* The state.                                                              *)
(***************************************************************************)
VARIABLES
    trace_data,     \* the shared Trace
    backend_panic,  \* the backend thread panicked inside update_trace_data
    log,            \* history: the probe events handed to the callback so far
    measured,       \* history: per hop, the measurement of every event that
                    \* left NotSent (zero for Awaited), newest first
    warm,           \* the engine's scripted events still to come
    free,           \* the freely chosen events still to come
    protocol,       \* TracerChannel.protocol
    read_timeout,   \* TracerChannel.read_timeout
    tcp_connect_timeout,  \* TracerChannel.tcp_connect_timeout
    tcp_probes,     \* TracerChannel.tcp_probes
    recv_queue,     \* the packets waiting at TracerChannel.recv_socket
    now,            \* the clock
    next_fd,        \* the next stream socket the operating system hands out
    chan_panic,     \* a channel call panicked
    last_call,      \* history: the call made by the step that led here, if any
    burst,          \* the engine's scripted sends still to come
    calls,          \* the freely chosen calls still to come
    arrived,        \* the number of ICMP packets that have arrived
    replied,        \* history: the sockets of the TcpReply responses returned
    engine_pc,      \* where the backend thread is
    cb,             \* the callback in progress: its probe, the trace it found
                    \* under the lock, how often it took the lock, and whether
                    \* it found the lock held for reading
    writer,         \* the RwLock is held for writing
    reader,         \* the RwLock is held for reading (by the main thread)
    seen,           \* the Trace the main thread read last under the read lock,
                    \* if it has read one
    main_pc,        \* where the main thread is
    exit_code,      \* the exit status of the process once main returned
    fatal,          \* tracer.trace() returned Err
    plat_log,       \* history: the platform calls made, with their results
    plat_panic,     \* a platform call panicked
    plat_calls,     \* the platform calls still to come
    probe_map,      \* the engine's probes by sequence number: ttl, status,
                    \* and whether they were emitted as Awaited
    round,          \* the engine's round
    next_ttl,       \* the ttl of the next probe of the round
    max_inflight,   \* TracerConfig.max_inflight
    eng_phase,      \* the engine sends and receives ("round"), emits the
                    \* unanswered probes ("flush"), or does not run ("off")
    lk_pc,          \* where lookup_interface_addr is
    iface_name,     \* its argument name
    adapters,       \* the adapter list the operating system has for the family
    tries,          \* its counter i
    gaa_res,        \* res: what GetAdaptersAddresses returned last
    gaa_calls,      \* history: the number of GetAdaptersAddresses calls
    bufs,           \* history: every buffer allocated, with the number of
                    \* times it was deallocated and whether it was read after
                    \* that; list_ptr is the last one
    cursor,         \* ip_adapter_address: the adapter the walk is at
    lk_result       \* what lookup_interface_addr returned, once it has

aggVars == << trace_data, backend_panic, log, measured, warm, free >>

chanVars == << protocol, read_timeout, tcp_connect_timeout, tcp_probes, recv_queue, now, next_fd, chan_panic,
               last_call, burst, calls, arrived, replied >>

lockVars == << engine_pc, cb, writer, reader, seen, main_pc, exit_code, fatal >>

platVars == << plat_log, plat_panic, plat_calls >>

engVars == << probe_map, round, next_ttl, max_inflight, eng_phase >>

lookVars ==
    << lk_pc, iface_name, adapters, tries, gaa_res, gaa_calls, bufs, cursor, lk_result >>

restVars == << lockVars, platVars, engVars, lookVars >>

vars == << aggVars, chanVars, restVars >>

config == << protocol, read_timeout, tcp_connect_timeout >>

NoCall ==
    [op |-> "none", result |-> "none", reply |-> Ok(None), full |-> FALSE,
     swept |-> FALSE, sweep |-> Ok(None), polled |-> FALSE, read |-> FALSE,
     held |-> 0, evicted |-> {}, ready |-> {}]

\* No callback is in progress.
NoCb ==
    [probe |-> Probe(1, "NotSent", 0, None), before |-> None,
     acquires |-> 0, blocked |-> FALSE]

\* The threads and the lock when main has spawned the backend thread
\* (main.rs:73, 98-106): nobody holds the lock, nothing was read yet.
LockIdle ==
    /\ engine_pc = "send"
    /\ cb = NoCb
    /\ writer = FALSE
    /\ reader = FALSE
    /\ seen = None
    /\ main_pc = "frontend"
    /\ exit_code = -1
    /\ fatal = FALSE

\* No platform call is made.
PlatIdle ==
    /\ plat_log = << >>
    /\ plat_panic = FALSE
    /\ plat_calls = 0

\* The engine does not run.
EngIdle ==
    /\ probe_map = << >>
    /\ round = 0
    /\ next_ttl = 1
    /\ max_inflight = 1
    /\ eng_phase = "off"

\* lookup_interface_addr is not called.
LookIdle ==
    /\ lk_pc = "off"
    /\ iface_name = ""
    /\ adapters = << >>
    /\ tries = 0
    /\ gaa_res = "none"
    /\ gaa_calls = 0
    /\ bufs = << >>
    /\ cursor = 0
    /\ lk_result = None

\* The aggregator's variables after construction.
TraceInit ==
    /\ trace_data = TraceDefault
    /\ backend_panic = FALSE
    /\ log = << >>
    /\ measured = [i \in 1..MAX_HOPS |-> << >>]

\* The channel's variables after TracerChannel::connect returned Ok.
ChannelInit ==
    /\ tcp_probes = << >>
    /\ recv_queue = << >>
    /\ now = 0
    /\ next_fd = 1
    /\ chan_panic = FALSE
    /\ last_call = NoCall
    /\ arrived = 0
    /\ replied = << >>

\* A scripted prefix that fills hop 0's sample list up to one below
\* MAX_SAMPLES: one answered probe, then unanswered ones.
WarmLen == MAX_SAMPLES - 1

WarmProbe(k) ==
    IF k = WarmLen
    THEN Probe(1, "Complete", 3000, Some("10.0.0.9"))
    ELSE Probe(1, "Awaited", 0, None)

AggInit ==
    /\ TraceInit
    /\ LockIdle
    /\ PlatIdle
    /\ EngIdle
    /\ LookIdle
    /\ warm \in {0, WarmLen}
    /\ free = MaxEvents
    /\ ChannelInit
    /\ protocol = "Icmp"
    /\ read_timeout = 1
    /\ tcp_connect_timeout = 1
    /\ burst = 0
    /\ calls = 0

\* The callback of run_backend: update_trace_data(*probe, &mut trace_data.write())
Callback(probe) ==
    LET r == update_trace_data(probe, trace_data)
    IN  /\ trace_data' = r.trace
        /\ backend_panic' = r.panicked
        /\ log' = Append(log, probe)
        /\ measured' =
              IF probe.ttl \in 1..MAX_HOPS /\ probe.status \in {"Awaited", "Complete"}
              THEN [measured EXCEPT ![probe.ttl] = << probe.dur >> \o @]
              ELSE measured

WarmEvent ==
    /\ ~backend_panic
    /\ warm > 0
    /\ Callback(WarmProbe(warm))
    /\ warm' = warm - 1
    /\ UNCHANGED << free, chanVars, restVars >>

ProbeEvent ==
    /\ ~backend_panic
    /\ warm = 0
    /\ free > 0
    /\ \E probe \in ProbeInputs : Callback(probe)
    /\ free' = free - 1
    /\ UNCHANGED << warm, chanVars, restVars >>

AggNext == WarmEvent \/ ProbeEvent

AggSpec == AggInit /\ [][AggNext]_vars

(***************************************************************************)
(* The channel's specification: the engine calls send_probe and recv_probe *)
(* in any order while the clock runs, connects complete and ICMP packets   *)
(* arrive.                                                                 *)
(***************************************************************************)
ChanInit ==
    /\ TraceInit
    /\ LockIdle
    /\ PlatIdle
    /\ EngIdle
    /\ LookIdle
    /\ warm = 0
    /\ free = 0
    /\ ChannelInit
    /\ protocol \in Protocols
    /\ read_timeout \in ReadTimeoutInputs
    /\ tcp_connect_timeout \in
          IF protocol = "Tcp" THEN TcpConnectTimeoutInputs ELSE {1}
    /\ burst \in IF protocol = "Tcp" THEN {0, MAX_TCP_PROBES} ELSE {0}
    /\ calls = IF burst = 0 THEN MaxCalls ELSE MaxBurstCalls

\* One send_probe call with the given outcome of the socket calls.
Send(setup_ok) ==
    LET r == send_probe(protocol, tcp_probes, setup_ok, next_fd, now)
    IN  /\ tcp_probes' = r.tcp_probes
        /\ chan_panic' = r.panicked
        /\ next_fd' = IF protocol = "Tcp" /\ setup_ok THEN next_fd + 1 ELSE next_fd
        /\ last_call' = [NoCall EXCEPT !.op = "send", !.result = r.result,
                            !.full = (Len(tcp_probes) = MAX_TCP_PROBES)]
        /\ UNCHANGED << config, recv_queue, now, arrived, replied >>

\* The scripted prefix: the engine sends MAX_TCP_PROBES probes back to back.
BurstSend ==
    /\ ~chan_panic
    /\ burst > 0
    /\ Send(TRUE)
    /\ burst' = burst - 1
    /\ UNCHANGED << calls, aggVars, restVars >>

SendProbe ==
    /\ ~chan_panic
    /\ burst = 0
    /\ calls > 0
    /\ \E setup_ok \in BOOLEAN : Send(setup_ok)
    /\ calls' = calls - 1
    /\ UNCHANGED << burst, aggVars, restVars >>

\* The sockets of the entries of the TCP probe array.
Fds(probes) == {probes[i].socket.fd : i \in 1..Len(probes)}

\* The sockets of the entries whose age has reached tcp_connect_timeout.
Expired ==
    {tcp_probes[i].socket.fd : i \in
        {j \in 1..Len(tcp_probes) :
            Elapsed(tcp_probes[j].start, now) >= tcp_connect_timeout}}

\* The sockets of the entries the operating system reports writable.
Writable ==
    {tcp_probes[i].socket.fd : i \in
        {j \in 1..Len(tcp_probes) : tcp_probes[j].socket.conn # "pending"}}

RecvProbe ==
    /\ ~chan_panic
    /\ burst = 0
    /\ calls > 0
    /\ \E os_error \in BOOLEAN :
          LET r == recv_probe(protocol, tcp_probes, recv_queue, now,
                              tcp_connect_timeout, read_timeout, os_error)
          IN  /\ now + r.icmp.waited <= MaxTime
              /\ tcp_probes' = r.tcp_probes
              /\ recv_queue' = r.icmp.queue
              /\ now' = now + r.icmp.waited
              /\ last_call' = [NoCall EXCEPT !.op = "recv",
                                  !.result = IF r.result.ok THEN "Ok" ELSE "Err",
                                  !.reply = r.result,
                                  !.swept = r.swept, !.sweep = r.sweep,
                                  !.polled = r.icmp.polled, !.read = r.icmp.read,
                                  !.held = Len(tcp_probes),
                                  !.evicted = IF r.swept THEN Expired ELSE {},
                                  !.ready = IF r.swept THEN Writable ELSE {}]
              /\ replied' = IF r.swept /\ IsSome(r.sweep.val)
                             THEN Append(replied, Unwrap(r.sweep.val).id)
                             ELSE replied
    /\ calls' = calls - 1
    /\ UNCHANGED << config, next_fd, chan_panic, arrived, burst, aggVars, restVars >>

\* The environment: time passes.
Tick ==
    /\ ~chan_panic
    /\ burst = 0
    /\ now < MaxTime
    /\ now' = now + 1
    /\ last_call' = NoCall
    /\ UNCHANGED << config, tcp_probes, recv_queue, next_fd, chan_panic,
                    burst, calls, arrived, replied, aggVars, restVars >>

\* The environment: the connect of one of the first sockets completes or fails.
ConnectDone ==
    /\ ~chan_panic
    /\ burst = 0
    /\ \E i \in SockWindow \cap 1..Len(tcp_probes), c \in ConnStates \ {"pending"} :
          /\ tcp_probes[i].socket.conn = "pending"
          /\ tcp_probes' = [tcp_probes EXCEPT ![i].socket.conn = c]
    /\ last_call' = NoCall
    /\ UNCHANGED << config, recv_queue, now, next_fd, chan_panic,
                    burst, calls, arrived, replied, aggVars, restVars >>

\* The environment: an ICMP packet arrives at the receive socket.
PacketArrives ==
    /\ ~chan_panic
    /\ burst = 0
    /\ arrived < MaxPackets
    /\ \E kind \in {"TimeExceeded", "Junk"} :
          recv_queue' = Append(recv_queue, [kind |-> kind, id |-> arrived + 1])
    /\ arrived' = arrived + 1
    /\ last_call' = NoCall
    /\ UNCHANGED << config, tcp_probes, now, next_fd, chan_panic,
                    burst, calls, replied, aggVars, restVars >>

ChanNext ==
    BurstSend \/ SendProbe \/ RecvProbe \/ Tick \/ ConnectDone \/ PacketArrives

ChanSpec == ChanInit /\ [][ChanNext]_vars

(***************************************************************************)
(* The two threads and the lock (main.rs:98-126, backend.rs:152-160).      *)
(* The backend thread runs the engine; every probe event is handed to the  *)
(* callback, which is the one statement                                    *)
(*     update_trace_data(probe, &mut trace_data.write());                  *)
(* the write guard is a temporary of that statement.  update_trace_data    *)
(* runs in three steps under the lock: highest_ttl (line 164), the hop's   *)
(* counters (167-172, 187-188), the rest of the arm (173-184, 189-194).    *)
(* The main thread runs the frontend, which reads the Trace under the read *)
(* lock, and returns from main when the frontend does.                     *)
(***************************************************************************)
\* The probe events of one run of the two threads.
LockTtlInputs == {1, MAX_HOPS + 1}

LockProbeInputs ==
    {Probe(t, st, 2000, None) : t \in LockTtlInputs, st \in {"NotSent", "Awaited", "Complete"}}

LockInit ==
    /\ TraceInit
    /\ LockIdle
    /\ PlatIdle
    /\ EngIdle
    /\ LookIdle
    /\ ChannelInit
    /\ warm = 0
    /\ free = MaxLockEvents
    /\ protocol = "Icmp"
    /\ read_timeout = 1
    /\ tcp_connect_timeout = 1
    /\ burst = 0
    /\ calls = 0

\* The process is running: main has not returned.
Running == main_pc # "exited"

\* What no step of the two threads touches.
lockRest == << backend_panic, warm, chanVars, platVars, engVars, lookVars >>

\* The engine sends the probes that are due.
EngineSend ==
    /\ Running
    /\ engine_pc = "send"
    /\ engine_pc' = "wait"
    /\ UNCHANGED << trace_data, log, measured, free, cb, writer, reader, seen,
                    main_pc, exit_code, fatal, lockRest >>

\* The engine waits for the receive socket: a response or the end of the
\* round is due (events follow), or the wait fails and tracer.trace()
\* returns Err.
EngineWait ==
    /\ Running
    /\ engine_pc = "wait"
    /\ \E failed \in BOOLEAN :
          /\ engine_pc' = IF failed THEN "failed" ELSE "emit"
          /\ fatal' = failed
    /\ UNCHANGED << trace_data, log, measured, free, cb, writer, reader, seen,
                    main_pc, exit_code, lockRest >>

\* The engine calls the callback with a probe event; the callback calls
\* trace_data.write().
EnterCallback ==
    /\ Running
    /\ engine_pc = "emit"
    /\ free > 0
    /\ \E probe \in LockProbeInputs :
          /\ cb' = [probe |-> probe, before |-> None, acquires |-> 0,
                    blocked |-> reader]
          /\ log' = Append(log, probe)
          /\ measured' =
                IF probe.ttl \in 1..MAX_HOPS /\ probe.status \in {"Awaited", "Complete"}
                THEN [measured EXCEPT ![probe.ttl] = << probe.dur >> \o @]
                ELSE measured
    /\ free' = free - 1
    /\ engine_pc' = "write"
    /\ UNCHANGED << trace_data, writer, reader, seen, main_pc, exit_code, fatal,
                    lockRest >>

\* RwLock::write returns once nobody holds the lock.
AcquireWrite ==
    /\ Running
    /\ engine_pc = "write"
    /\ ~writer
    /\ ~reader
    /\ writer' = TRUE
    /\ cb' = [cb EXCEPT !.before = Some(trace_data), !.acquires = @ + 1]
    /\ engine_pc' = "ttl"
    /\ UNCHANGED << trace_data, log, measured, free, reader, seen, main_pc,
                    exit_code, fatal, lockRest >>

\* update_trace_data, lines 163-164; then the arm indexes hops[index], which
\* panics if the ttl has no slot.
SetHighestTtl ==
    /\ Running
    /\ engine_pc = "ttl"
    /\ trace_data' = [trace_data EXCEPT
                         !.highest_ttl = NextHighestTtl(trace_data.highest_ttl, cb.probe)]
    /\ engine_pc' = IF cb.probe.status = "NotSent" THEN "unlock"
                    ELSE IF cb.probe.ttl - 1 < Len(trace_data.hops) THEN "counts"
                    ELSE "unwind"
    /\ UNCHANGED << log, measured, free, cb, writer, reader, seen, main_pc,
                    exit_code, fatal, lockRest >>

\* update_trace_data, lines 167-172 (Complete) and 187-188 (Awaited).
CountedHop(hop, probe) ==
    IF probe.status = "Complete"
    THEN [hop EXCEPT !.ttl = probe.ttl,
                     !.total_sent = @ + 1,
                     !.total_recv = @ + 1,
                     !.total_time = @ + probe.dur,
                     !.last = Some(probe.dur)]
    ELSE [hop EXCEPT !.total_sent = @ + 1,
                     !.ttl = probe.ttl]

UpdateCounts ==
    /\ Running
    /\ engine_pc = "counts"
    /\ trace_data' = [trace_data EXCEPT
                         !.hops[cb.probe.ttl] = CountedHop(@, cb.probe)]
    /\ engine_pc' = "samples"
    /\ UNCHANGED << log, measured, free, cb, writer, reader, seen, main_pc,
                    exit_code, fatal, lockRest >>

\* update_trace_data, lines 173-184 (Complete) and 189-194 (Awaited): the
\* call has now done all of update_trace_data to the trace it found.
UpdateSamples ==
    /\ Running
    /\ engine_pc = "samples"
    /\ trace_data' = update_trace_data(cb.probe, Unwrap(cb.before)).trace
    /\ engine_pc' = "unlock"
    /\ UNCHANGED << log, measured, free, cb, writer, reader, seen, main_pc,
                    exit_code, fatal, lockRest >>

\* A faulty variant of ReleaseWrite: the guard outlives the callback.
ReleaseWrite_Leak ==
    /\ Running
    /\ engine_pc = "unlock"
    /\ engine_pc' = "return"
    /\ UNCHANGED << trace_data, log, measured, free, cb, writer, reader, seen,
                    main_pc, exit_code, fatal, lockRest >>

\* The end of the callback's statement drops the write guard.
ReleaseWrite ==
    /\ Running
    /\ engine_pc = "unlock"
    /\ writer' = FALSE
    /\ engine_pc' = "return"
    /\ UNCHANGED << trace_data, log, measured, free, cb, reader, seen, main_pc,
                    exit_code, fatal, lockRest >>

\* The callback returns to the engine.
ReturnCallback ==
    /\ Running
    /\ engine_pc = "return"
    /\ engine_pc' = "emit"
    /\ UNCHANGED << trace_data, log, measured, free, cb, writer, reader, seen,
                    main_pc, exit_code, fatal, lockRest >>

\* The panic unwinds the backend thread: the write guard is dropped (the lock
\* of parking_lot is not poisoned) and the thread ends.
Unwind ==
    /\ Running
    /\ engine_pc = "unwind"
    /\ writer' = FALSE
    /\ backend_panic' = TRUE
    /\ engine_pc' = "dead"
    /\ UNCHANGED << trace_data, log, measured, warm, free, cb, reader, seen,
                    main_pc, exit_code, fatal, chanVars, platVars, engVars,
                    lookVars >>

\* No event is left to emit: the round ends, the engine sleeps until the next
\* one or, with max_rounds reached, tracer.trace() returns Ok.
EndRound ==
    /\ Running
    /\ engine_pc = "emit"
    /\ engine_pc' \in {"sleep", "done"}
    /\ UNCHANGED << trace_data, log, measured, free, cb, writer, reader, seen,
                    main_pc, exit_code, fatal, lockRest >>

EngineSleep ==
    /\ Running
    /\ engine_pc = "sleep"
    /\ engine_pc' = "send"
    /\ UNCHANGED << trace_data, log, measured, free, cb, writer, reader, seen,
                    main_pc, exit_code, fatal, lockRest >>

\* run_backend returns Err and .expect("backend failed") panics: the backend
\* thread ends, the rest of the process runs on (main.rs:101-105).
BackendFails ==
    /\ Running
    /\ engine_pc = "failed"
    /\ backend_panic' = TRUE
    /\ engine_pc' = "dead"
    /\ UNCHANGED << trace_data, log, measured, warm, free, cb, writer, reader,
                    seen, main_pc, exit_code, fatal, chanVars, platVars, engVars,
                    lookVars >>

\* The frontend takes the read lock: RwLock::read returns once no writer
\* holds the lock.
ReadLock ==
    /\ main_pc = "frontend"
    /\ ~reader
    /\ ~writer
    /\ reader' = TRUE
    /\ cb' = [cb EXCEPT !.blocked = @ \/ engine_pc = "write"]
    /\ UNCHANGED << trace_data, log, measured, free, engine_pc, writer, seen,
                    main_pc, exit_code, fatal, lockRest >>

\* The frontend reads the Trace under the read lock.
ReadTrace ==
    /\ main_pc = "frontend"
    /\ reader
    /\ seen' = Some(trace_data)
    /\ UNCHANGED << trace_data, log, measured, free, engine_pc, cb, writer,
                    reader, main_pc, exit_code, fatal, lockRest >>

\* The frontend drops the read guard.
ReadUnlock ==
    /\ main_pc = "frontend"
    /\ reader
    /\ reader' = FALSE
    /\ UNCHANGED << trace_data, log, measured, free, engine_pc, cb, writer, seen,
                    main_pc, exit_code, fatal, lockRest >>

\* The frontend or report returns (the user quit, the report is written, or
\* the TUI failed) and main returns Ok(()) or the frontend's error
\* (main.rs:108-126): the process exits.
MainReturns ==
    /\ main_pc = "frontend"
    /\ ~reader
    /\ \E ok \in BOOLEAN : exit_code' = IF ok THEN 0 ELSE 1
    /\ main_pc' = "exited"
    /\ UNCHANGED << trace_data, log, measured, free, engine_pc, cb, writer,
                    reader, seen, fatal, lockRest >>

EngineNext ==
    \/ EngineSend \/ EngineWait \/ EnterCallback \/ AcquireWrite
    \/ SetHighestTtl \/ UpdateCounts \/ UpdateSamples \/ ReleaseWrite
    \/ ReturnCallback \/ Unwind \/ EndRound \/ EngineSleep \/ BackendFails

LockNext == EngineNext \/ ReadLock \/ ReadTrace \/ ReadUnlock \/ MainReturns

LockSpec == LockInit /\ [][LockNext]_vars

\* A thread waiting in RwLock::write gets the lock if the lock is free again
\* and again (parking_lot's lock is fair to a waiting writer).  Nothing makes
\* the frontend release the read lock or return.
LockFairSpec == LockSpec /\ SF_vars(AcquireWrite)

(***************************************************************************)
(* The Windows platform layer (platform/windows.rs:603-632) and            *)
(* make_src_addr (channel.rs:298-316).  A call ends with Ok(value), with   *)
(* Err (a TracerError) or in a panic.                                      *)
(***************************************************************************)
Returns(v) == [kind |-> "Ok", val |-> v]

Fails == [kind |-> "Err", val |-> None]

Panics == [kind |-> "Panic", val |-> None]

\* Duration::as_millis() is a u128, held here as two digits to the base
\* 2^16 (hi * 2^16 + lo); u32::try_from succeeds below 2^32.
WORD == 65536

Millis(hi, lo) == [hi |-> hi, lo |-> lo]

FitsU32(millis) == millis.hi < WORD

\* read timeouts: 0 ms, 1 s, u32::MAX ms, 2^32 ms
TimeoutInputs ==
    {Millis(0, 0), Millis(0, 1000), Millis(WORD - 1, WORD - 1), Millis(WORD, 0)}

\* What WSAWaitForMultipleEvents returns: the event is signaled, the wait
\* timed out, or WSA_WAIT_FAILED.
WaitOutcomes == {"signaled", "timeout", "failed"}

\* windows::is_readable: timeout.as_millis().try_into().unwrap(), then the wait.
windows_is_readable(timeout, rc) ==
    IF ~FitsU32(timeout) THEN Panics
    ELSE IF rc = "failed" THEN Fails
    ELSE Returns(rc # "timeout")

\* How long WSAWaitForMultipleEvents waited, in the digits of Millis: the
\* whole timeout when it timed out, no time when the event was signaled
\* already or the wait failed.
Waited(timeout, rc) == IF rc = "timeout" THEN timeout ELSE Millis(0, 0)

MillisLe(a, b) == a.hi < b.hi \/ (a.hi = b.hi /\ a.lo <= b.lo)

\* The packets a read of the receive socket can return.
PacketInputs ==
    {[kind |-> "TimeExceeded", id |-> 1], [kind |-> "Junk", id |-> 2]}

\* recv_icmp_probe on Windows: if platform::is_readable(..)? { read and
\* parse } else { Ok(None) }.  Gives the result, whether the socket was
\* read, and the time spent waiting.
windows_recv_icmp_probe(timeout, rc, packet) ==
    LET ready == windows_is_readable(timeout, rc)
    IN  IF ready.kind = "Panic"
        THEN [kind |-> "Panic", val |-> None, read |-> FALSE, waited |-> Millis(0, 0)]
        ELSE IF ready.kind = "Err"
        THEN [kind |-> "Err", val |-> None, read |-> FALSE,
              waited |-> Waited(timeout, rc)]
        ELSE IF ready.val
        THEN [kind |-> "Ok", val |-> ParseIcmp(packet).val, read |-> TRUE,
              waited |-> Waited(timeout, rc)]
        ELSE [kind |-> "Ok", val |-> None, read |-> FALSE,
              waited |-> Waited(timeout, rc)]

\* windows::is_writable: unimplemented!()
windows_is_writable(sock) == Panics

\* windows::is_not_in_progress_error: unimplemented!()
windows_is_not_in_progress_error(code) == Panics

\* windows::is_conn_refused_error: unimplemented!()
windows_is_conn_refused_error(code) == Panics

\* make_src_addr: validate, look up or discover the source address
\* (found: the arm's call returned Ok); both a source address and an
\* interface is unreachable!().
make_src_addr(source_addr, interface, found) ==
    CASE IsSome(source_addr) /\ ~IsSome(interface) ->
            IF found THEN Returns(Unwrap(source_addr)) ELSE Fails
      [] ~IsSome(source_addr) /\ IsSome(interface) ->
            IF found THEN Returns("192.0.2.1") ELSE Fails
      [] ~IsSome(source_addr) /\ ~IsSome(interface) ->
            IF found THEN Returns("192.0.2.2") ELSE Fails
      [] OTHER -> Panics

SourceAddrInputs == {None, Some("192.0.2.9")}

\* The maximum size of the IP packet we allow.
MAX_PACKET_SIZE == 1024

\* config.packet_size is a u16: the limit, one above it, and u16::MAX.
PacketSizeInputs == {MAX_PACKET_SIZE, MAX_PACKET_SIZE + 1, 65535}

\* The calls TracerChannel::connect makes after the size check, in order.
SetupCalls ==
    << "make_src_addr", "for_address", "make_icmp_send_socket",
       "make_udp_send_socket", "make_recv_socket" >>

Setup == {SetupCalls[k] : k \in 1..Len(SetupCalls)}

\* What the operating system answers to each setup call: every call
\* succeeds, exactly one fails, every call fails, or make_src_addr panics.
SetupInputs ==
    {[c \in Setup |-> IF c \in F THEN "Err" ELSE "Ok"] :
        F \in {{}, Setup} \cup {{c} : c \in Setup}}
    \cup {[c \in Setup |-> IF c = "make_src_addr" THEN "Panic" ELSE "Ok"]}

\* A faulty variant of TooLarge: the limit itself is rejected.
TooLarge_Inclusive(packet_size) == packet_size >= MAX_PACKET_SIZE

\* usize::from(config.packet_size.0) > MAX_PACKET_SIZE
TooLarge(packet_size) == packet_size > MAX_PACKET_SIZE

\* The ? operator on a setup call: connect returns the call's error.
SetupFailed(call, made) ==
    [kind |-> "Err", val |-> << "SetupError", call >>, made |-> made]

\* TracerChannel::connect(config): the result (the channel, an error or a
\* panic) and the setup calls made, in order.
connect(packet_size, os) ==
    IF TooLarge(packet_size)
    THEN [kind |-> "Err", val |-> << "InvalidPacketSize", packet_size >>,
          made |-> << >>]
    ELSE IF os["make_src_addr"] = "Panic"
    THEN [kind |-> "Panic", val |-> None, made |-> SubSeq(SetupCalls, 1, 1)]
    ELSE IF os["make_src_addr"] = "Err"
    THEN SetupFailed("make_src_addr", SubSeq(SetupCalls, 1, 1))
    ELSE IF os["for_address"] = "Err"
    THEN SetupFailed("for_address", SubSeq(SetupCalls, 1, 2))
    ELSE IF os["make_icmp_send_socket"] = "Err"
    THEN SetupFailed("make_icmp_send_socket", SubSeq(SetupCalls, 1, 3))
    ELSE IF os["make_udp_send_socket"] = "Err"
    THEN SetupFailed("make_udp_send_socket", SubSeq(SetupCalls, 1, 4))
    ELSE IF os["make_recv_socket"] = "Err"
    THEN SetupFailed("make_recv_socket", SubSeq(SetupCalls, 1, 5))
    ELSE [kind |-> "Ok", val |-> << "TracerChannel", packet_size >>,
          made |-> SetupCalls]

InterfaceInputs == {None, Some("Ethernet")}

PlatInit ==
    /\ TraceInit
    /\ LockIdle
    /\ EngIdle
    /\ LookIdle
    /\ ChannelInit
    /\ warm = 0
    /\ free = 0
    /\ protocol = "Icmp"
    /\ read_timeout = 1
    /\ tcp_connect_timeout = 1
    /\ burst = 0
    /\ calls = 0
    /\ plat_log = << >>
    /\ plat_panic = FALSE
    /\ plat_calls = MaxPlatCalls

\* One platform call and its result.
PlatCall(op, arg, result) ==
    /\ plat_log' = Append(plat_log, [op |-> op, arg |-> arg, result |-> result])
    /\ plat_panic' = (result.kind = "Panic")
    /\ plat_calls' = plat_calls - 1
    /\ UNCHANGED << aggVars, chanVars, lockVars, engVars, lookVars >>

\* A call is made unless an earlier one panicked.
CanCall == ~plat_panic /\ plat_calls > 0

IsReadable ==
    /\ CanCall
    /\ \E timeout \in TimeoutInputs, rc \in WaitOutcomes :
          PlatCall("is_readable", << timeout, rc >>, windows_is_readable(timeout, rc))

IsWritable ==
    /\ CanCall
    /\ \E sock \in 1..2 : PlatCall("is_writable", sock, windows_is_writable(sock))

IsNotInProgressError ==
    /\ CanCall
    /\ \E code \in {0, 10036} :
          PlatCall("is_not_in_progress_error", code,
                   windows_is_not_in_progress_error(code))

IsConnRefusedError ==
    /\ CanCall
    /\ \E code \in {0, 10061} :
          PlatCall("is_conn_refused_error", code, windows_is_conn_refused_error(code))

MakeSrcAddr ==
    /\ CanCall
    /\ \E source_addr \in SourceAddrInputs, interface \in InterfaceInputs,
          found \in BOOLEAN :
          PlatCall("make_src_addr", << source_addr, interface, found >>,
                   make_src_addr(source_addr, interface, found))

RecvIcmpProbe ==
    /\ CanCall
    /\ \E timeout \in TimeoutInputs, rc \in WaitOutcomes, packet \in PacketInputs :
          PlatCall("recv_icmp_probe",
                   [timeout |-> timeout, rc |-> rc, packet |-> packet],
                   windows_recv_icmp_probe(timeout, rc, packet))

Connect ==
    /\ CanCall
    /\ \E packet_size \in PacketSizeInputs, os \in SetupInputs :
          PlatCall("connect", [packet_size |-> packet_size, os |-> os],
                   connect(packet_size, os))

PlatNext ==
    \/ IsReadable
    \/ IsWritable
    \/ IsNotInProgressError
    \/ IsConnRefusedError
    \/ MakeSrcAddr
    \/ RecvIcmpProbe
    \/ Connect

PlatSpec == PlatInit /\ [][PlatNext]_vars

(***************************************************************************)
(* lookup_interface_addr (platform/windows.rs:323-417): a loop that         *)
(* allocates a buffer and asks GetAdaptersAddresses to fill it, trying      *)
(* again with a new buffer while the answer is ERROR_BUFFER_OVERFLOW, then  *)
(* a walk over the adapters in the buffer for the one with the friendly     *)
(* name asked for.  One call is followed statement by statement.            *)
(***************************************************************************)
\* Max tries allowed to call GetAdaptersAddresses on a loop basis.
MAX_TRIES == 3

\* What GetAdaptersAddresses returns: NO_ERROR, ERROR_BUFFER_OVERFLOW, or
\* another error (ERROR_NO_DATA: no adapter has an address of the family).
OsAnswers == {"NO_ERROR", "ERROR_BUFFER_OVERFLOW", "ERROR_NO_DATA"}

Adapter(name, unicast) == [name |-> name, unicast |-> unicast]

\* Adapter lists: FriendlyName and the list at FirstUnicastAddress of each.
\* An adapter may have no unicast address of the family.
AdapterInputs ==
    {<< Adapter("Ethernet", << "192.0.2.1", "192.0.2.2" >>) >>,
     << Adapter("Loopback", << "127.0.0.1" >>),
        Adapter("Ethernet", << "192.0.2.1" >>),
        Adapter("Ethernet", << "192.0.2.7" >>) >>,
     << Adapter("Loopback", << "127.0.0.1" >>),
        Adapter("Wi-Fi", << >>),
        Adapter("Ethernet", << "192.0.2.1" >>) >>}

NameInputs == {"Ethernet", "Wi-Fi", "vpn0"}

TracerError(e) == [kind |-> "Err", val |-> e]

\* The process dies of an access violation.
Faults == [kind |-> "Fault", val |-> "access violation"]

LookInit ==
    /\ TraceInit
    /\ LockIdle
    /\ PlatIdle
    /\ EngIdle
    /\ ChannelInit
    /\ warm = 0
    /\ free = 0
    /\ protocol = "Icmp"
    /\ read_timeout = 1
    /\ tcp_connect_timeout = 1
    /\ burst = 0
    /\ calls = 0
    /\ lk_pc = "alloc"
    /\ iface_name \in NameInputs
    /\ adapters \in AdapterInputs
    /\ tries = 0
    /\ gaa_res = "none"
    /\ gaa_calls = 0
    /\ bufs = << >>
    /\ cursor = 0
    /\ lk_result = None

lookRest == << aggVars, chanVars, lockVars, platVars, engVars, iface_name, adapters >>

\* dealloc(list_ptr, layout)
Dealloc(bs) == [bs EXCEPT ![Len(bs)].frees = @ + 1]

\* A read through ip_adapter_address, which points into the last buffer.
ReadBuf(bs) == [bs EXCEPT ![Len(bs)].stale = @ \/ bs[Len(bs)].frees > 0]

\* Lines 338-357: the layout, and alloc(layout), which may return null.
Alloc ==
    /\ lk_pc = "alloc"
    /\ \E got \in BOOLEAN :
          IF got
          THEN /\ bufs' = Append(bufs, [frees |-> 0, stale |-> FALSE])
               /\ lk_pc' = "call"
               /\ UNCHANGED lk_result
          ELSE /\ lk_result' = Some(TracerError("ErrorString"))
               /\ lk_pc' = "done"
               /\ UNCHANGED bufs
    /\ UNCHANGED << tries, gaa_res, gaa_calls, cursor, lookRest >>

\* Lines 359-368: res = GetAdaptersAddresses(..); i += 1.
GetAdaptersAddresses ==
    /\ lk_pc = "call"
    /\ \E answer \in OsAnswers : gaa_res' = answer
    /\ gaa_calls' = gaa_calls + 1
    /\ tries' = tries + 1
    /\ lk_pc' = "test"
    /\ UNCHANGED << bufs, cursor, lk_result, lookRest >>

\* Lines 370-375: if res != ERROR_BUFFER_OVERFLOW || i > MAX_TRIES { break }
\* and otherwise dealloc and the next iteration.
LoopTest ==
    /\ lk_pc = "test"
    /\ IF gaa_res # "ERROR_BUFFER_OVERFLOW" \/ tries > MAX_TRIES
       THEN lk_pc' = "res" /\ UNCHANGED bufs
       ELSE lk_pc' = "alloc" /\ bufs' = Dealloc(bufs)
    /\ UNCHANGED << tries, gaa_res, gaa_calls, cursor, lk_result, lookRest >>

\* Lines 377-382: if res != NO_ERROR { return Err(ErrorString) }.
CheckRes ==
    /\ lk_pc = "res"
    /\ IF gaa_res # "NO_ERROR"
       THEN /\ lk_result' = Some(TracerError("ErrorString"))
            /\ lk_pc' = "done"
            /\ UNCHANGED cursor
       ELSE /\ lk_pc' = "walk"
            /\ cursor' = 1
            /\ UNCHANGED lk_result
    /\ UNCHANGED << tries, gaa_res, gaa_calls, bufs, lookRest >>

\* Lines 384-391 and 406: one turn of the while loop over the adapters.
Walk ==
    /\ lk_pc = "walk"
    /\ IF cursor > Len(adapters)
       THEN lk_pc' = "unknown" /\ UNCHANGED << cursor, bufs >>
       ELSE /\ bufs' = ReadBuf(bufs)
            /\ IF adapters[cursor].name = iface_name
               THEN lk_pc' = "unicast" /\ UNCHANGED cursor
               ELSE lk_pc' = "walk" /\ cursor' = cursor + 1
    /\ UNCHANGED << tries, gaa_res, gaa_calls, lk_result, lookRest >>

\* Lines 395-401: the address at FirstUnicastAddress, dealloc, return.  An
\* adapter without a unicast address has FirstUnicastAddress null, and
\* (*current_unicast).Address reads through the null pointer: the process
\* faults, or the read gives some bytes that are taken for an address.
ReadUnicast ==
    /\ lk_pc = "unicast"
    /\ IF adapters[cursor].unicast # << >>
       THEN /\ lk_result' = Some(Returns(Head(adapters[cursor].unicast)))
            /\ bufs' = Dealloc(ReadBuf(bufs))
       ELSE \/ lk_result' = Some(Faults) /\ bufs' = ReadBuf(bufs)
            \/ /\ lk_result' \in {Some(Returns("0.0.0.0")), Some(TracerError("IoError"))}
               /\ bufs' = Dealloc(ReadBuf(bufs))
    /\ lk_pc' = "done"
    /\ UNCHANGED << tries, gaa_res, gaa_calls, cursor, lookRest >>

\* Lines 409-416: dealloc and Err(UnknownInterface).
ReturnUnknown ==
    /\ lk_pc = "unknown"
    /\ bufs' = Dealloc(bufs)
    /\ lk_result' = Some(TracerError("UnknownInterface"))
    /\ lk_pc' = "done"
    /\ UNCHANGED << tries, gaa_res, gaa_calls, cursor, lookRest >>

LookNext ==
    \/ Alloc
    \/ GetAdaptersAddresses
    \/ LoopTest
    \/ CheckRes
    \/ Walk
    \/ ReadUnicast
    \/ ReturnUnknown

LookSpec == LookInit /\ [][LookNext]_vars

(***************************************************************************)
(* The engine (spec 4.4), feeding the callback of run_backend.  A round    *)
(* sends probes at rising ttl while the in-flight count is below           *)
(* max_inflight; a response completes its probe, which is emitted; at      *)
(* round completion the probes still Awaited are emitted once as Awaited;  *)
(* the in-flight map outlives the round, so a later response completes and *)
(* emits a probe of an earlier round; a probe that times out is retired.   *)
(***************************************************************************)
\* The in-flight count: the probes with status Awaited.
InFlight(ps) == Cardinality({k \in 1..Len(ps) : ps[k].status = "Awaited"})

\* A faulty variant of MaySend: one probe more than max_inflight.
MaySend_AtLimit(ps, ttl, limit) == ttl <= MaxTtl /\ InFlight(ps) <= limit

\* Scheduling rule 1: send at ttl t if t <= max_ttl and the in-flight count
\* is below max_inflight.
MaySend(ps, ttl, limit) == ttl <= MaxTtl /\ InFlight(ps) < limit

\* The probes still Awaited that were not yet emitted as Awaited.
Unreported(ps) ==
    {k \in 1..Len(ps) : ps[k].status = "Awaited" /\ ~ps[k].emitted_awaited}

EngInit ==
    /\ TraceInit
    /\ LockIdle
    /\ PlatIdle
    /\ LookIdle
    /\ ChannelInit
    /\ warm = 0
    /\ free = 0
    /\ protocol = "Icmp"
    /\ read_timeout = 1
    /\ tcp_connect_timeout = 1
    /\ burst = 0
    /\ calls = 0
    /\ probe_map = << >>
    /\ round = 1
    /\ next_ttl = 1
    /\ max_inflight \in MaxInflightInputs
    /\ eng_phase = "round"

engRest == << warm, free, chanVars, lockVars, platVars, lookVars >>

EngSendProbe ==
    /\ eng_phase = "round"
    /\ Len(probe_map) < MaxProbes
    /\ MaySend(probe_map, next_ttl, max_inflight)
    /\ probe_map' = Append(probe_map, [ttl |-> next_ttl, status |-> "Awaited",
                                 emitted_awaited |-> FALSE])
    /\ next_ttl' = next_ttl + 1
    /\ UNCHANGED << round, max_inflight, eng_phase, trace_data, backend_panic,
                    log, measured, engRest >>

\* A response for an Awaited probe, of this round or an earlier one: the
\* probe becomes Complete and is emitted.
EngResponse ==
    /\ eng_phase = "round"
    /\ \E k \in 1..Len(probe_map), host \in HostInputs :
          /\ probe_map[k].status = "Awaited"
          /\ probe_map' = [probe_map EXCEPT ![k].status = "Complete"]
          /\ Callback(Probe(probe_map[k].ttl, "Complete", 2000, host))
    /\ UNCHANGED << round, next_ttl, max_inflight, eng_phase, engRest >>

\* The round completes (rule 3).
EngRoundComplete ==
    /\ eng_phase = "round"
    /\ eng_phase' = "flush"
    /\ UNCHANGED << probe_map, round, next_ttl, max_inflight, trace_data,
                    backend_panic, log, measured, engRest >>

\* At round completion a probe still Awaited is emitted, once, as Awaited.
EngEmitAwaited ==
    /\ eng_phase = "flush"
    /\ Unreported(probe_map) # {}
    /\ LET k == CHOOSE i \in Unreported(probe_map) : \A j \in Unreported(probe_map) : i <= j
       IN  /\ probe_map' = [probe_map EXCEPT ![k].emitted_awaited = TRUE]
           /\ Callback(Probe(probe_map[k].ttl, "Awaited", 0, None))
    /\ UNCHANGED << round, next_ttl, max_inflight, eng_phase, engRest >>

\* The next round starts at the first ttl.
EngNextRound ==
    /\ eng_phase = "flush"
    /\ Unreported(probe_map) = {}
    /\ round < MaxRounds
    /\ round' = round + 1
    /\ next_ttl' = 1
    /\ eng_phase' = "round"
    /\ UNCHANGED << probe_map, max_inflight, trace_data, backend_panic, log,
                    measured, engRest >>

\* A probe emitted as Awaited times out and is retired.
EngRetire ==
    /\ eng_phase = "round"
    /\ \E k \in 1..Len(probe_map) :
          /\ probe_map[k].status = "Awaited"
          /\ probe_map[k].emitted_awaited
          /\ probe_map' = [probe_map EXCEPT ![k].status = "Retired"]
    /\ UNCHANGED << round, next_ttl, max_inflight, eng_phase, trace_data,
                    backend_panic, log, measured, engRest >>

EngNext ==
    \/ EngSendProbe \/ EngResponse \/ EngRoundComplete
    \/ EngEmitAwaited \/ EngNextRound \/ EngRetire

EngSpec == EngInit /\ [][EngNext]_vars

(***************************************************************************)
(* What the history says: reference definitions for the properties.        *)
(***************************************************************************)
Last(s) == s[Len(s)]

Prefix(s, n) == SubSeq(s, 1, Min(Len(s), n))

HasSlot(ttl) == ttl \in 1..MAX_HOPS

LeftNotSent(probe) == probe.status \in {"Awaited", "Complete"}

\* This step handed one more probe event to the callback.
EventStep == Len(log') = Len(log) + 1

\* The round trip times of the Complete events of hop ttl, oldest first.
CompleteDurs(ttl) ==
    LET ev == SelectSeq(log, LAMBDA p : p.ttl = ttl /\ p.status = "Complete")
    IN  [k \in 1..Len(ev) |-> ev[k].dur]

\* The largest ttl among the events that left NotSent, 0 if there is none.
RECURSIVE MaxLeftTtl(_)
MaxLeftTtl(s) ==
    IF s = << >> THEN 0
    ELSE IF LeftNotSent(Last(s))
         THEN Max(Last(s).ttl, MaxLeftTtl(SubSeq(s, 1, Len(s) - 1)))
         ELSE MaxLeftTtl(SubSeq(s, 1, Len(s) - 1))

RECURSIVE SumSeq(_)
SumSeq(s) == IF s = << >> THEN 0 ELSE s[1] + SumSeq(Tail(s))

\* The two-pass reference: the mean in ms, then the (n-1) sample variance.
TwoPassMean(durs) == Rat(SumSeq(durs), MICROS_PER_MS * Len(durs))

RECURSIVE SumSqDev(_, _)
SumSqDev(durs, mean) ==
    IF durs = << >> THEN Zero
    ELSE RatAdd(RatMul(RatSub(ms_of(durs[1]), mean), RatSub(ms_of(durs[1]), mean)),
                SumSqDev(Tail(durs), mean))

TwoPassVariance(durs) ==
    IF Len(durs) > 1
    THEN RatDivInt(SumSqDev(durs, TwoPassMean(durs)), Len(durs) - 1)
    ELSE Zero

Hops == trace_data.hops

\* The ttl values that occur in the history; a hop of any other ttl has seen
\* no event.
Touched == {log[k].ttl : k \in 1..Len(log)}

(***************************************************************************)
(* The aggregator's properties.                                            *)
(***************************************************************************)
\* C1: after any sequence of probe events (NotSent, Awaited, Complete, any
\* ttl with a hop slot) every hop has total_recv <= total_sent.
C1_RecvAtMostSent ==
    \A i \in 1..MAX_HOPS : Hops[i].total_recv <= Hops[i].total_sent

\* A hop that counted answered and unanswered probes, after a NotSent event.
C1_Witness ==
    /\ \E i \in 1..MAX_HOPS :
          Hops[i].total_recv >= 1 /\ Hops[i].total_sent > Hops[i].total_recv
    /\ \E k \in 1..Len(log) : log[k].status = "NotSent"

\* C2: each hop's samples hold at most MAX_SAMPLES entries and are the newest
\* measurements of that hop, newest first (zero for Awaited): the list is the
\* prefix of the hop's whole measurement history, so samples[0] is the most
\* recent one and the 257th sample pushes out the oldest.
C2_SamplesNewestFirst ==
    \A i \in 1..MAX_HOPS :
        /\ Len(Hops[i].samples) <= MAX_SAMPLES
        /\ Hops[i].samples = Prefix(measured[i], MAX_SAMPLES)

\* A hop that has seen more than MAX_SAMPLES measurements, the oldest of them
\* (a real round trip time) being the one no longer kept.
C2_Witness ==
    \E i \in 1..MAX_HOPS :
        /\ Len(measured[i]) > MAX_SAMPLES
        /\ Last(measured[i]) # 0
        /\ Len(Hops[i].samples) = MAX_SAMPLES
        /\ Hops[i].samples[1] # 0

\* C3: highest_ttl is the maximum ttl over the probe events seen so far whose
\* probe has left NotSent, and 0 if there is none; a NotSent event does not
\* raise it.
C3_HighestTtlOfLeftNotSent ==
    trace_data.highest_ttl = MaxLeftTtl(log)

\* C4: on a Complete event the mean becomes mean + (dur_ms - mean)/total_recv
\* and m2 grows by (dur_ms - mean_prev) * (dur_ms - mean').
C4_WelfordStep ==
    [][(EventStep /\ Last(log').status = "Complete" /\ HasSlot(Last(log').ttl))
        => LET t      == Last(log').ttl
               dur_ms == ms_of(Last(log').dur)
               old    == trace_data.hops[t]
               new    == trace_data'.hops[t]
           IN  /\ new.mean = RatAdd(old.mean,
                       RatDivInt(RatSub(dur_ms, old.mean), new.total_recv))
               /\ new.m2 = RatAdd(old.m2,
                       RatMul(RatSub(dur_ms, old.mean), RatSub(dur_ms, new.mean)))
      ]_vars

\* C5: for the Complete round trip times applied to a hop, the streaming mean
\* and standard deviation equal those of the two-pass reference (compared as
\* squares, see stddev_ms_squared).
C5_WelfordEquivalence ==
    \A i \in 1..MAX_HOPS :
        Hops[i].total_recv >= 1 =>
            /\ Hops[i].mean = TwoPassMean(CompleteDurs(i))
            /\ stddev_ms_squared(Hops[i]) = TwoPassVariance(CompleteDurs(i))

\* C6: a hop with total_recv >= 1 has best and worst set, best <= mean <=
\* worst (in ms) and best <= last <= worst; a hop with total_recv = 0 has
\* last, best and worst unset.
C6_BestMeanWorst ==
    \A i \in 1..MAX_HOPS :
        LET hop == Hops[i]
        IN  IF hop.total_recv >= 1
            THEN /\ IsSome(hop.best) /\ IsSome(hop.worst) /\ IsSome(hop.last)
                 /\ RatLe(Unwrap(best_ms(hop)), hop.mean)
                 /\ RatLe(hop.mean, Unwrap(worst_ms(hop)))
                 /\ Unwrap(hop.best) <= Unwrap(hop.last)
                 /\ Unwrap(hop.last) <= Unwrap(hop.worst)
            ELSE hop.last = None /\ hop.best = None /\ hop.worst = None

\* A hop whose last round trip time lies strictly between its best and worst.
C6_Witness ==
    \E i \in 1..MAX_HOPS :
        LET hop == Hops[i]
        IN  /\ hop.total_recv >= 3
            /\ Unwrap(hop.best) < Unwrap(hop.last)
            /\ Unwrap(hop.last) < Unwrap(hop.worst)
            /\ hop.mean # Unwrap(best_ms(hop))
            /\ hop.mean # Unwrap(worst_ms(hop))

\* C7: a Complete event for ttl t with duration dur changes hop t-1 so:
\* total_sent and total_recv grow by 1, total_time by dur, last becomes dur,
\* best min(old best, dur) (dur if unset), worst max(old worst, dur) (dur if
\* unset), and the responder (0.0.0.0 if the probe has no host) joins addrs.
C7_CompleteEffect ==
    [][(EventStep /\ Last(log').status = "Complete" /\ HasSlot(Last(log').ttl))
        => LET p   == Last(log')
               old == trace_data.hops[p.ttl]
               new == trace_data'.hops[p.ttl]
           IN  /\ new.total_sent = old.total_sent + 1
               /\ new.total_recv = old.total_recv + 1
               /\ new.total_time = old.total_time + p.dur
               /\ new.last = Some(p.dur)
               /\ new.best = IF old.best = None THEN Some(p.dur)
                             ELSE Some(Min(Unwrap(old.best), p.dur))
               /\ new.worst = IF old.worst = None THEN Some(p.dur)
                              ELSE Some(Max(Unwrap(old.worst), p.dur))
               /\ new.addrs = old.addrs \cup
                     {IF p.host = None THEN UNSPECIFIED ELSE Unwrap(p.host)}
      ]_vars

\* A Complete event without a host has just been applied to a hop that had
\* answers before, and it is neither the best nor the worst of them.
C7_Witness ==
    /\ log # << >>
    /\ Last(log).status = "Complete"
    /\ Last(log).host = None
    /\ HasSlot(Last(log).ttl)
    /\ LET hop == Hops[Last(log).ttl]
       IN  /\ hop.total_recv >= 3
           /\ UNSPECIFIED \in hop.addrs
           /\ Cardinality(hop.addrs) >= 2
           /\ Unwrap(hop.best) < Last(log).dur
           /\ Last(log).dur < Unwrap(hop.worst)

\* C8: an Awaited event for ttl t adds 1 to hop t-1's total_sent, pushes a zero
\* sample to the front of its samples and leaves its total_recv, total_time,
\* last, best, worst, mean, m2 and addrs unchanged; so a hop that only ever
\* received Awaited events has total_recv = 0 and last unset.
OnlyAwaited(ttl) ==
    /\ ttl \in Touched
    /\ \A k \in 1..Len(log) : log[k].ttl = ttl => log[k].status = "Awaited"

C8_AwaitedEffect ==
    /\ [][(EventStep /\ Last(log').status = "Awaited" /\ HasSlot(Last(log').ttl))
          => LET p   == Last(log')
                 old == trace_data.hops[p.ttl]
                 new == trace_data'.hops[p.ttl]
             IN  /\ new.total_sent = old.total_sent + 1
                 /\ new.samples # << >>
                 /\ new.samples[1] = 0
                 /\ Tail(new.samples) = Prefix(old.samples, MAX_SAMPLES - 1)
                 /\ new.total_recv = old.total_recv
                 /\ new.total_time = old.total_time
                 /\ new.last = old.last
                 /\ new.best = old.best
                 /\ new.worst = old.worst
                 /\ new.mean = old.mean
                 /\ new.m2 = old.m2
                 /\ new.addrs = old.addrs
        ]_vars
    /\ [](\A i \in Touched \cap 1..MAX_HOPS :
             OnlyAwaited(i) => Hops[i].total_recv = 0 /\ Hops[i].last = None)

\* An Awaited event has just been applied to a hop that had an answer before,
\* and another hop has only ever received Awaited events.
C8_Witness ==
    /\ log # << >>
    /\ Last(log).status = "Awaited"
    /\ \E i \in 1..MAX_HOPS :
          /\ Hops[i].total_recv >= 1
          /\ IsSome(Hops[i].last)
          /\ Hops[i].samples[1] = 0
    /\ \E j \in Touched \cap 1..MAX_HOPS : OnlyAwaited(j) /\ Hops[j].total_sent >= 1

\* C20: for every ttl the configuration permits and every status,
\* update_trace_data indexes an existing hop slot, and in every reachable
\* state target_hop() does: highest_ttl is at most the number of hop slots
\* and no probe event makes the aggregator index out of range.
C20_HopIndexInRange ==
    /\ ~backend_panic
    /\ trace_data.highest_ttl <= Len(trace_data.hops)
    /\ ~target_hop(trace_data).panicked

\* C21: a probe event for ttl t changes no hop but the one at index t-1 (a
\* NotSent event changes no hop at all), and in every reachable state the
\* hop at index i has ttl = i+1 if its total_sent > 0 and ttl = 0 otherwise
\* (slot k of hops, counted from 1, is index k-1).
C21_OnlyOwnHopChanges ==
    /\ [](\A k \in 1..MAX_HOPS :
            trace_data.hops[k].ttl =
                IF trace_data.hops[k].total_sent > 0 THEN k ELSE 0)
    /\ [][log' # log =>
            LET probe == log'[Len(log')]
            IN  /\ \A k \in 1..MAX_HOPS :
                      k # probe.ttl => trace_data'.hops[k] = trace_data.hops[k]
                /\ probe.status = "NotSent" => trace_data'.hops = trace_data.hops
                /\ Len(trace_data'.hops) = MAX_HOPS]_vars

\* Events of all three statuses were applied, to the first and to the last
\* hop slot and to a ttl past the last slot.
C21_Witness ==
    /\ trace_data.hops[1].total_sent > 0
    /\ trace_data.hops[MAX_HOPS].total_sent > 0
    /\ \E i \in 1..Len(log) : log[i].status = "NotSent" /\ log[i].ttl = MAX_HOPS + 1
    /\ warm = 0

(***************************************************************************)
(* The channel's properties.                                               *)
(***************************************************************************)
\* C9: a TCP send_probe made while the TCP probe array holds MAX_TCP_PROBES
\* entries is rejected with the ChannelFull error value (or with the error of
\* a socket call that failed before), without a panic, and leaves the array
\* unchanged.
C9_FullArrayRejects ==
    [][(last_call'.op = "send" /\ protocol = "Tcp"
            /\ Len(tcp_probes) = MAX_TCP_PROBES)
        => /\ last_call'.result \in {"ChannelFull", "Err"}
           /\ ~chan_panic'
           /\ tcp_probes' = tcp_probes
      ]_vars

\* C10: in TCP mode recv_probe sweeps the TCP probe set and polls the ICMP
\* receive socket only if the sweep produced no response; when the sweep
\* produced a TcpReply, that reply is returned and no ICMP packet is read from
\* the receive socket in that call.
C10_IcmpOnlyAfterEmptySweep ==
    (last_call.op = "recv" /\ protocol = "Tcp") =>
        /\ last_call.swept
        /\ last_call.polled => last_call.sweep = Ok(None)
        /\ IsSome(last_call.sweep.val) =>
              /\ last_call.reply = last_call.sweep
              /\ ~last_call.read

\* This step is a recv_probe call in TCP mode: a sweep of the TCP probe array.
SweepStep == last_call'.op = "recv" /\ protocol = "Tcp"

\* The entries of probes whose socket is in keep, in their order.
Among(probes, keep) == SelectSeq(probes, LAMBDA p : p.socket.fd \in keep)

\* C11: every sweep first evicts all entries whose age has reached
\* tcp_connect_timeout: after the sweep no remaining entry is that old, and an
\* evicted entry yields no TcpReply, in this sweep or later, even if its
\* socket was writable at the time of the sweep.
C11_SweepEvictsExpired ==
    /\ [][SweepStep
          => /\ \A i \in 1..Len(tcp_probes') :
                   Elapsed(tcp_probes'[i].start, now) < tcp_connect_timeout
             /\ Expired \cap Fds(tcp_probes') = {}
             /\ \A id \in Expired :
                   last_call'.sweep.val # Some(ProbeResponse("TcpReply", id))
             /\ \A k \in 1..Len(replied') :
                   k > Len(replied) => replied'[k] \notin Expired
        ]_vars
    /\ [][tcp_probes' # tcp_probes
            => Fds(tcp_probes') \subseteq Fds(tcp_probes) \cup {next_fd}]_vars

\* A sweep has just evicted an entry whose socket was writable, and returned
\* the TcpReply of a younger entry.
C11_Witness ==
    /\ last_call.op = "recv"
    /\ protocol = "Tcp"
    /\ last_call.evicted \cap last_call.ready # {}
    /\ IsSome(last_call.sweep.val)
    /\ Unwrap(last_call.sweep.val).id \notin last_call.evicted

\* C12: each TCP probe yields at most one TcpReply over the run: the entry
\* found writable is removed in the same sweep, a sweep removes at most one
\* entry for a response, and the entries not chosen stay in their order.
C12_OneReplyPerProbe ==
    /\ [][SweepStep
          => LET fresh == Among(tcp_probes, Fds(tcp_probes) \ Expired)
                 hit   == Fds(fresh) \cap Writable
                 left  == Fds(tcp_probes')
             IN  /\ Len(tcp_probes') >= Len(fresh) - 1
                 /\ tcp_probes' = Among(fresh, left)
                 /\ (hit # {}) <=> (Len(tcp_probes') = Len(fresh) - 1)
                 /\ IsSome(last_call'.sweep.val) =>
                       /\ Unwrap(last_call'.sweep.val).id \in hit
                       /\ Unwrap(last_call'.sweep.val).id \notin left
        ]_vars
    /\ [](\A j, k \in 1..Len(replied) : replied[j] = replied[k] => j = k)

\* A sweep has just returned the TcpReply of an entry that stood between two
\* others, which are still in the array.
C12_Witness ==
    /\ last_call.op = "recv"
    /\ protocol = "Tcp"
    /\ IsSome(last_call.sweep.val)
    /\ Len(tcp_probes) = last_call.held - 1
    /\ \E i \in 1..Len(tcp_probes) - 1 :
          /\ tcp_probes[i].socket.fd < Unwrap(last_call.sweep.val).id
          /\ tcp_probes[i + 1].socket.fd > Unwrap(last_call.sweep.val).id

\* C23: the TCP probe set changes only through TCP operations: a TCP
\* send_probe whose socket setup or connect fails returns the error and leaves
\* the set unchanged, a successful one appends exactly one entry, in ICMP or
\* UDP mode the set stays empty whatever is called, and the set never holds
\* more than 256 entries.
C23_OnlyTcpChangesProbeSet ==
    /\ [](Len(tcp_probes) <= 256)
    /\ []((protocol \in {"Icmp", "Udp"}) => (tcp_probes = << >>))
    /\ [][(protocol = "Tcp" /\ last_call'.op = "send" /\ last_call'.result = "Err")
            => (tcp_probes' = tcp_probes)]_vars
    /\ [][(protocol = "Tcp" /\ last_call'.op = "send" /\ last_call'.result = "Ok")
            => (/\ Len(tcp_probes') = Len(tcp_probes) + 1
                /\ SubSeq(tcp_probes', 1, Len(tcp_probes)) = tcp_probes)]_vars
    /\ [][(Fds(tcp_probes') # Fds(tcp_probes))
            => (protocol = "Tcp" /\ last_call'.op \in {"send", "recv"})]_vars

\* A TCP send_probe failed while the set held an entry of an earlier send.
C23_Witness ==
    /\ protocol = "Tcp"
    /\ last_call.op = "send"
    /\ last_call.result = "Err"
    /\ Len(tcp_probes) >= 1

(***************************************************************************)
(* The properties of the two threads and the lock.                         *)
(***************************************************************************)
\* The trace after whole update_trace_data calls for the given events.
RECURSIVE Applied(_)
Applied(events) ==
    IF events = << >> THEN TraceDefault
    ELSE update_trace_data(Last(events),
                           Applied(SubSeq(events, 1, Len(events) - 1))).trace

\* Each of the calls for the given events ran to its end.
Completes(events) ==
    \A k \in 1..Len(events) :
        ~update_trace_data(events[k], Applied(SubSeq(events, 1, k - 1))).panicked

\* The trace is the result of a whole number of completed calls.
Whole(trace) ==
    \E k \in 0..Len(log) :
        /\ Completes(SubSeq(log, 1, k))
        /\ trace = Applied(SubSeq(log, 1, k))

\* C13: a consumer that reads the Trace under the read lock only observes
\* states that result from a whole number of completed update_trace_data
\* calls: no hop with total_recv > total_sent, more than MAX_SAMPLES samples
\* or total_sent counted without its sample, and no highest_ttl raised for an
\* Awaited or Complete event whose hop update is not visible.
C13_ReaderSeesWholeUpdates ==
    /\ reader => Whole(trace_data)
    /\ IsSome(seen) =>
          /\ Whole(Unwrap(seen))
          /\ \A i \in 1..MAX_HOPS :
                LET hop == Unwrap(seen).hops[i]
                IN  /\ hop.total_recv <= hop.total_sent
                    /\ Len(hop.samples) = Min(hop.total_sent, MAX_SAMPLES)

\* The same, as long as no update_trace_data call has panicked.
WholeUpdatesUnlessPanicked ==
    (\A k \in 1..Len(log) : LeftNotSent(log[k]) => HasSlot(log[k].ttl))
        => C13_ReaderSeesWholeUpdates

\* The backend thread is inside update_trace_data.
InUpdate == engine_pc \in {"ttl", "counts", "samples", "unlock", "unwind"}

\* C14: the backend thread takes the write lock exactly once per probe
\* callback, holds it only for that one update_trace_data call and has
\* released it when the callback returns; it does not hold it while it waits
\* for a socket, sends, or sleeps between rounds.
C14_WriteLockOncePerCallback ==
    /\ [](writer => InUpdate)
    /\ [](engine_pc \in {"send", "wait", "sleep"} => ~writer)
    /\ [][(engine_pc = "return" /\ engine_pc' = "emit")
            => cb.acquires = 1 /\ ~writer]_vars

\* The engine waits for a socket after a callback that took the lock, while
\* the frontend holds the read lock.
C14_Witness ==
    /\ engine_pc = "wait"
    /\ log # << >>
    /\ cb.acquires = 1
    /\ reader

\* C15, as stated: a consumer never makes the engine wait: no callback is
\* ever waiting for the write lock while a consumer holds the read lock.
C15_ConsumerNeverBlocksEngine ==
    ~(engine_pc = "write" /\ reader)

\* C15, amended: a callback waits for the write lock only while consumers
\* hold the read lock: with no reader the lock can be taken at once, and if
\* the read lock is free again and again, every waiting callback gets the
\* write lock and goes on (or the process exits).
C15_CallbackProceedsOnceReleased ==
    /\ []((engine_pc = "write" /\ ~reader /\ Running) => ENABLED AcquireWrite)
    /\ ([]<>(~reader))
          => ((engine_pc = "write") ~> (engine_pc = "ttl" \/ ~Running))

\* A callback that found the lock held for reading has completed.
C15_Witness ==
    /\ engine_pc = "return"
    /\ cb.blocked
    /\ cb.acquires = 1

\* C16: when tracer.trace() returned a fatal error, the tool exits with a
\* non-zero status: never with status zero.
C16_FatalErrorExitsNonZero ==
    (fatal /\ engine_pc = "dead" /\ main_pc = "exited") => exit_code # 0

(***************************************************************************)
(* The platform layer's properties.                                        *)
(***************************************************************************)
\* C17: every platform call returns a value or a TracerError and none ends in
\* a panic: is_writable returns true or false, is_readable returns for every
\* timeout.
C17_PlatformCallsReturn ==
    /\ ~plat_panic
    /\ \A k \in 1..Len(plat_log) :
          /\ plat_log[k].result.kind \in {"Ok", "Err"}
          /\ plat_log[k].op = "is_writable" =>
                plat_log[k].result \in {Returns(TRUE), Returns(FALSE), Fails}

\* C22: connect with packet_size > MAX_PACKET_SIZE returns the
\* InvalidPacketSize error carrying that size, before it resolves the source
\* address or creates a socket; with packet_size = MAX_PACKET_SIZE it does
\* not return that error; when a later setup call fails (source address,
\* byte order, one of the three sockets) connect returns that call's error
\* and produces no channel.
C22_ConnectChecksSizeFirst ==
    \A k \in 1..Len(plat_log) :
        plat_log[k].op = "connect" =>
            LET size   == plat_log[k].arg.packet_size
                os     == plat_log[k].arg.os
                result == plat_log[k].result
                failed == {j \in 1..Len(SetupCalls) :
                              /\ os[SetupCalls[j]] = "Err"
                              /\ \A i \in 1..(j - 1) : os[SetupCalls[i]] = "Ok"}
            IN  /\ size > 1024 =>
                      /\ result.kind = "Err"
                      /\ result.val = << "InvalidPacketSize", size >>
                      /\ result.made = << >>
                /\ size = 1024 =>
                      ~(result.kind = "Err" /\ result.val[1] = "InvalidPacketSize")
                /\ \A j \in failed :
                      size <= 1024 =>
                          /\ result.kind = "Err"
                          /\ result.val = << "SetupError", SetupCalls[j] >>
                          /\ result.made = SubSeq(SetupCalls, 1, j)

\* connect was called with the largest size allowed and the last socket call
\* failed, and with a size above the limit.
C22_Witness ==
    /\ \E k \in 1..Len(plat_log) :
          /\ plat_log[k].op = "connect"
          /\ plat_log[k].arg.packet_size = MAX_PACKET_SIZE
          /\ plat_log[k].arg.os["make_recv_socket"] = "Err"
          /\ plat_log[k].result.kind = "Err"
          /\ Len(plat_log[k].result.made) = 5
    /\ \E k \in 1..Len(plat_log) :
          /\ plat_log[k].op = "connect"
          /\ plat_log[k].arg.packet_size > MAX_PACKET_SIZE

\* C24: in ICMP or UDP mode recv_probe waits on the receive socket for at
\* most read_timeout; if the socket is not readable within it, recv_probe
\* returns None without reading from the socket; a packet is read and parsed
\* only after the readiness check returned true; an error of the readiness
\* check is returned as an error, not as None.
C24_RecvWaitsThenReads ==
    \A k \in 1..Len(plat_log) :
        plat_log[k].op = "recv_icmp_probe" =>
            LET timeout == plat_log[k].arg.timeout
                rc      == plat_log[k].arg.rc
                result  == plat_log[k].result
            IN  /\ MillisLe(result.waited, timeout)
                /\ rc = "timeout" =>
                      /\ result.kind = "Ok"
                      /\ result.val = None
                      /\ ~result.read
                /\ result.read => rc = "signaled"
                /\ rc = "signaled" =>
                      /\ result.kind = "Ok"
                      /\ result.val = ParseIcmp(plat_log[k].arg.packet).val
                /\ rc = "failed" => result.kind = "Err"

\* The same for the read timeouts that fit the u32 of the wait call.
RecvWaitsThenReadsIfFits ==
    \A k \in 1..Len(plat_log) :
        (plat_log[k].op = "recv_icmp_probe" /\ FitsU32(plat_log[k].arg.timeout)) =>
            LET timeout == plat_log[k].arg.timeout
                rc      == plat_log[k].arg.rc
                result  == plat_log[k].result
            IN  /\ MillisLe(result.waited, timeout)
                /\ rc = "timeout" =>
                      /\ result.kind = "Ok"
                      /\ result.val = None
                      /\ ~result.read
                /\ result.read => rc = "signaled"
                /\ rc = "signaled" =>
                      /\ result.kind = "Ok"
                      /\ result.val = ParseIcmp(plat_log[k].arg.packet).val
                /\ rc = "failed" => result.kind = "Err"

\* The adapters whose friendly name is the one asked for.
Named == {k \in 1..Len(adapters) : adapters[k].name = iface_name}

\* C25: the retry loop of lookup_interface_addr ends and calls
\* GetAdaptersAddresses at most MAX_TRIES = 3 times however often the answer
\* is ERROR_BUFFER_OVERFLOW; afterwards the call returns the first unicast
\* address of the first adapter whose friendly name is the requested one,
\* and the UnknownInterface error exactly when no adapter has that name.
C25_LookupTriesThrice ==
    /\ gaa_calls <= 3
    /\ (lk_pc = "done" /\ gaa_res = "NO_ERROR") =>
          IF Named = {}
          THEN lk_result = Some(TracerError("UnknownInterface"))
          ELSE LET first == CHOOSE k \in Named : \A j \in Named : k <= j
               IN  /\ adapters[first].unicast # << >>
                   /\ lk_result = Some(Returns(adapters[first].unicast[1]))
    /\ lk_result = Some(TracerError("UnknownInterface")) => Named = {}

\* The same with one call more allowed, for the lists whose adapters all
\* have a unicast address.
LookupTriesFourTimes ==
    /\ gaa_calls <= MAX_TRIES + 1
    /\ (lk_pc = "done" /\ gaa_res = "NO_ERROR"
           /\ \A k \in 1..Len(adapters) : adapters[k].unicast # << >>) =>
          IF Named = {}
          THEN lk_result = Some(TracerError("UnknownInterface"))
          ELSE LET first == CHOOSE k \in Named : \A j \in Named : k <= j
               IN  lk_result = Some(Returns(adapters[first].unicast[1]))
    /\ lk_result = Some(TracerError("UnknownInterface")) => Named = {}

\* C26: on every return path of lookup_interface_addr (success, an error of
\* GetAdaptersAddresses, no adapter of that name, a retry after a buffer
\* overflow) every buffer that was allocated has been deallocated exactly
\* once: none is leaked, none is freed twice, none is read after it was freed.
C26_BuffersFreedOnce ==
    /\ \A k \in 1..Len(bufs) : bufs[k].frees <= 1 /\ ~bufs[k].stale
    /\ (lk_pc = "done" /\ lk_result # Some(Faults)) =>
          \A k \in 1..Len(bufs) : bufs[k].frees = 1

\* No buffer is freed twice or read after it was freed, and only the last
\* buffer can be left allocated at the return.
BuffersFreedAtMostOnce ==
    /\ \A k \in 1..Len(bufs) : bufs[k].frees <= 1 /\ ~bufs[k].stale
    /\ lk_pc = "done" => \A k \in 1..(Len(bufs) - 1) : bufs[k].frees = 1

(***************************************************************************)
(* The engine's properties.                                                *)
(***************************************************************************)
\* C18: the number of probes with status Awaited never exceeds max_inflight:
\* a probe is sent only while the in-flight count is below max_inflight, and
\* the count goes down only when a probe leaves Awaited.
C18_InFlightBounded ==
    /\ [](InFlight(probe_map) <= max_inflight)
    /\ [][Len(probe_map') > Len(probe_map) => InFlight(probe_map) < max_inflight]_vars
    /\ [][InFlight(probe_map') < InFlight(probe_map)
            => /\ Len(probe_map') = Len(probe_map)
               /\ \E k \in 1..Len(probe_map) :
                     probe_map[k].status = "Awaited" /\ probe_map'[k].status # "Awaited"
      ]_vars

\* The window is full with more than one probe, after a probe left Awaited.
C18_Witness ==
    /\ max_inflight = 2
    /\ InFlight(probe_map) = max_inflight
    /\ Len(probe_map) > max_inflight

\* The probes the engine sent at the ttl that were reported to the callback.
ReportedAt(ttl) ==
    {k \in 1..Len(probe_map) :
        /\ probe_map[k].ttl = ttl
        /\ probe_map[k].emitted_awaited \/ probe_map[k].status = "Complete"}

\* C19: every hop's total_sent is the number of distinct probes sent at its
\* ttl that have been reported: a probe emitted as Awaited at round
\* completion and again as Complete in a later round counts once.
C19_TotalSentCountsProbesOnce ==
    \A ttl \in 1..MaxTtl : Hops[ttl].total_sent = Cardinality(ReportedAt(ttl))

=============================================================================
